---- MODULE Spec2Model ----
(***************************************************************************)
(* Model of jrny: the SQL statement scanner (src/parser/states.rs driven   *)
(* by the statement accumulator of spec section 4.2), the `begin` command  *)
(* (src/commands/begin.rs) and the CLI environment resolution              *)
(* (src/main.rs).                                                          *)
(*                                                                         *)
(* Graphemes are one-character strings.  A lookahead key is a sequence of  *)
(* graphemes.  The driver's held text, buffer and statements are kept as   *)
(* sequences of input positions; their text is Text(positions).            *)
(***************************************************************************)
EXTENDS Integers, Sequences, FiniteSets, TLC

VARIABLES
    \* ---- scanner ----
    input,        \* graphemes fed to the driver so far
    script,       \* the whole text when it is one of the fixed examples, else <<>>
    state,        \* current LexState
    held,         \* positions of the held (carried) graphemes
    buffer,       \* positions of the graphemes of the statement being built
    statements,   \* completed statements, each a sequence of positions
    result,       \* ScanResult once the input has ended
    spc,          \* "scan" | "done"
    lastKey,      \* key of the latest call of accept
    lastAction,   \* action returned by the latest call of accept
    ref,          \* reference lexical context of the text read so far
    cls,          \* per input position: "live" | "lit" | "lc" | "bc"
    cuts,         \* input positions at which a statement boundary was produced
    emitted,      \* input positions appended to a buffer, in the order appended
    carried,      \* input positions of a `-` or `/` that the driver has held
    \* ---- begin command ----
    fs,                 \* paths that exist on the file system
    created_root,       \* Begin.created_root
    created_revisions,  \* Begin.created_revisions
    created_conf,       \* Begin.created_conf
    created_env,        \* Begin.created_env
    created_env_ex,     \* Begin.created_env_ex
    bpc,                \* position of Begin::execute
    berr,               \* error of the failed step, "none" before
    bresult,            \* what execute returned
    pre,                \* the file system when execute was called
    made,               \* paths this execution created on the file system
    steps,              \* steps attempted, in order
    removals,           \* removals attempted by revert, in order
    \* ---- CLI environment ----
    env_file,           \* CliEnvironment.env_file
    db_url,             \* CliEnvironment.db_url
    load,               \* what Environment::from_filepath gives for the path
    eresult,            \* what jrny_environment returned
    epc,                \* "call" | "returned"
    \* ---- State::accept called on its own ----
    tstate,             \* the state accept is called on
    tkey,               \* the key it is given
    tresult,            \* what it returned
    tpc                 \* "call" | "returned"

svars == <<input, script, state, held, buffer, statements, result, spc,
           lastKey, lastAction, ref, cls, cuts, emitted, carried>>

bvars == <<fs, created_root, created_revisions, created_conf, created_env,
           created_env_ex, bpc, berr, bresult, pre, made, steps, removals>>

evars == <<env_file, db_url, load, eresult, epc>>

avars == <<tstate, tkey, tresult, tpc>>

vars == <<svars, bvars, evars, avars>>

\* ---------------------------------------------------------------------
\* Bounds
\* ---------------------------------------------------------------------
MaxLen == 5

\* longest key given to accept when it is called on its own
MaxKeyLen == 2

Alphabet == {"'", "\"", "-", "/", "*", ";", "\n", "a"}

\* ---------------------------------------------------------------------
\* src/parser/states.rs
\* ---------------------------------------------------------------------
States == {"Start", "InString", "InDelimitedIdentifier",
           "MightStartInlineComment", "InInlineComment",
           "MightStartBlockComment", "InBlockComment",
           "MightEndBlockComment"}

Action == {"Ignore", "Append", "Carry"}

R(a, n) == [action |-> a, next |-> n]

\* can_terminate with InString overriding the default
can_terminate_string(st) ==
    CASE st = "Start"                   -> TRUE
      [] st = "InString"                -> TRUE
      [] st = "MightStartInlineComment" -> TRUE
      [] st = "MightStartBlockComment"  -> TRUE
      [] OTHER                          -> FALSE

\* can_terminate without the override of MightStartBlockComment
can_terminate_no_block(st) ==
    CASE st = "Start"                   -> TRUE
      [] st = "MightStartInlineComment" -> TRUE
      [] OTHER                          -> FALSE

can_terminate(st) ==
    CASE st = "Start"                   -> TRUE
      [] st = "MightStartInlineComment" -> TRUE
      [] st = "MightStartBlockComment"  -> TRUE
      [] OTHER                          -> FALSE

\* Start::accept ignoring ordinary text
StartAcceptIgnore(s) ==
    CASE s = <<"'">>  -> R("Append", "InString")
      [] s = <<"\"">> -> R("Append", "InDelimitedIdentifier")
      [] s = <<"-">>  -> R("Carry", "MightStartInlineComment")
      [] s = <<"/">>  -> R("Carry", "MightStartBlockComment")
      [] OTHER        -> R("Ignore", "Start")

StartAccept(s) ==
    CASE s = <<"'">>  -> R("Append", "InString")
      [] s = <<"\"">> -> R("Append", "InDelimitedIdentifier")
      [] s = <<"-">>  -> R("Carry", "MightStartInlineComment")
      [] s = <<"/">>  -> R("Carry", "MightStartBlockComment")
      [] OTHER        -> R("Append", "Start")

InStringAccept(s) ==
    CASE s = <<"'">> -> R("Append", "Start")
      [] OTHER       -> R("Append", "InString")

InDelimitedIdentifierAccept(s) ==
    CASE s = <<"\"">> -> R("Append", "Start")
      [] OTHER        -> R("Append", "InDelimitedIdentifier")

\* MightStartInlineComment::accept ignoring what follows a lone dash
MightStartInlineCommentAcceptIgnore(s) ==
    CASE s = <<"'">>      -> R("Append", "InString")
      [] s = <<"\"">>     -> R("Append", "InDelimitedIdentifier")
      [] s = <<"-", "-">> -> R("Ignore", "InInlineComment")
      [] s = <<"/">>      -> R("Carry", "MightStartBlockComment")
      [] OTHER            -> R("Ignore", "Start")

MightStartInlineCommentAccept(s) ==
    CASE s = <<"'">>      -> R("Append", "InString")
      [] s = <<"\"">>     -> R("Append", "InDelimitedIdentifier")
      [] s = <<"-", "-">> -> R("Ignore", "InInlineComment")
      [] s = <<"/">>      -> R("Carry", "MightStartBlockComment")
      [] OTHER            -> R("Append", "Start")

\* InInlineComment::accept dropping the newline
InInlineCommentAcceptDrop(s) ==
    CASE s = <<"\n">> -> R("Ignore", "Start")
      [] OTHER        -> R("Ignore", "InInlineComment")

InInlineCommentAccept(s) ==
    CASE s = <<"\n">> -> R("Append", "Start")
      [] OTHER        -> R("Ignore", "InInlineComment")

MightStartBlockCommentAccept(s) ==
    CASE s = <<"'">>      -> R("Append", "InString")
      [] s = <<"\"">>     -> R("Append", "InDelimitedIdentifier")
      [] s = <<"-">>      -> R("Ignore", "MightStartInlineComment")
      [] s = <<"/", "*">> -> R("Carry", "InBlockComment")
      [] OTHER            -> R("Append", "Start")

\* InBlockComment::accept not carrying the star
InBlockCommentAcceptIgnore(s) ==
    CASE s = <<"*">> -> R("Ignore", "MightEndBlockComment")
      [] OTHER       -> R("Ignore", "InBlockComment")

InBlockCommentAccept(s) ==
    CASE s = <<"*">> -> R("Carry", "MightEndBlockComment")
      [] OTHER       -> R("Ignore", "InBlockComment")

MightEndBlockCommentAccept(s) ==
    CASE s = <<"*", "/">> -> R("Ignore", "Start")
      [] OTHER            -> R("Ignore", "InBlockComment")

\* dynamic dispatch of State::accept on the boxed state
accept(st, s) ==
    CASE st = "Start"                   -> StartAccept(s)
      [] st = "InString"                -> InStringAccept(s)
      [] st = "InDelimitedIdentifier"   -> InDelimitedIdentifierAccept(s)
      [] st = "MightStartInlineComment" -> MightStartInlineCommentAccept(s)
      [] st = "InInlineComment"         -> InInlineCommentAccept(s)
      [] st = "MightStartBlockComment"  -> MightStartBlockCommentAccept(s)
      [] st = "InBlockComment"          -> InBlockCommentAccept(s)
      [] st = "MightEndBlockComment"    -> MightEndBlockCommentAccept(s)

\* ---------------------------------------------------------------------
\* Statement accumulator / driver (spec section 4.2)
\* ---------------------------------------------------------------------
Delimiter == ";"

IsWhitespace(g) == g \in {" ", "\n"}

\* text of a sequence of positions of the text inp
Text(inp, idx) == [k \in 1..Len(idx) |-> inp[idx[k]]]

SetMin(S) == CHOOSE x \in S : \A y \in S : x <= y
SetMax(S) == CHOOSE x \in S : \A y \in S : x >= y

\* a statement's text is the buffer without its leading and trailing whitespace
Trim(inp, idx) ==
    LET solid == {k \in 1..Len(idx) : ~IsWhitespace(inp[idx[k]])}
    IN  IF solid = {} THEN <<>>
        ELSE SubSeq(idx, SetMin(solid), SetMax(solid))

\* flush that keeps every buffer as it is
FlushAll(inp, stmts, buf) == Append(stmts, buf)

\* flush: a buffer holding only whitespace is not a statement
Flush(inp, stmts, buf) ==
    IF Trim(inp, buf) = <<>> THEN stmts ELSE Append(stmts, Trim(inp, buf))

ErrorOf(st) ==
    CASE st = "InString"              -> "UnterminatedString"
      [] st = "InDelimitedIdentifier" -> "UnterminatedQuotedIdentifier"
      [] st = "InBlockComment"        -> "UnterminatedBlockComment"
      [] st = "MightEndBlockComment"  -> "UnterminatedBlockComment"
      [] OTHER                        -> "UnterminatedLineComment"

NoResult == [kind |-> "none", error |-> "none", statements |-> <<>>]

\* ---------------------------------------------------------------------
\* Reference lexical context of the text (ANSI quoting and comments, block
\* comments not nesting), used to say where literals and comments are.
\* ---------------------------------------------------------------------
RefStep(r, g) ==
    CASE r = "str"       -> IF g = "'" THEN "code" ELSE "str"
      [] r = "qid"       -> IF g = "\"" THEN "code" ELSE "qid"
      [] r = "line"      -> IF g = "\n" THEN "code" ELSE "line"
      [] r = "block"     -> IF g = "*" THEN "blockstar" ELSE "block"
      [] r = "blockstar" -> IF g = "/" THEN "code"
                            ELSE IF g = "*" THEN "blockstar" ELSE "block"
      [] OTHER           -> \* "code", "dash" (after a `-`), "slash" (after a `/`)
            CASE g = "'"                -> "str"
              [] g = "\""               -> "qid"
              [] g = "-" /\ r = "dash"  -> "line"
              [] g = "-" /\ r # "dash"  -> "dash"
              [] g = "*" /\ r = "slash" -> "block"
              [] g = "/"                -> "slash"
              [] OTHER                  -> "code"

\* class of every position once g has been read in context r
ClsStep(c, r, g) ==
    LET p == Len(c) + 1 IN
    CASE r = "dash" /\ g = "-"          -> [k \in 1..p |-> IF k >= p - 1 THEN "lc" ELSE c[k]]
      [] r = "slash" /\ g = "*"         -> [k \in 1..p |-> IF k >= p - 1 THEN "bc" ELSE c[k]]
      [] r \in {"str", "qid"}           -> Append(c, "lit")
      [] r = "line" /\ g # "\n"         -> Append(c, "lc")
      [] r \in {"block", "blockstar"}   -> Append(c, "bc")
      [] OTHER                          -> Append(c, IF g \in {"'", "\""} THEN "lit" ELSE "live")

\* ---------------------------------------------------------------------
\* The texts of spec section 8
\* ---------------------------------------------------------------------
ExString ==
    <<"s","e","l","e","c","t"," ","'",";","'"," ","a","s"," ","x",";">>
ExUnterminated ==
    <<"s","e","l","e","c","t"," ","'","a","b","c">>
ExLine ==
    <<"s","e","l","e","c","t"," ","1",";"," ","-","-"," ","t","r","a","i","l",
      "i","n","g"," ","c","o","m","m","e","n","t","\n",
      "s","e","l","e","c","t"," ","2",";">>
ExBlock ==
    <<"s","e","l","e","c","t"," ","/","*"," ","a",";"," ","b"," ","*","/"," ","1",";">>
ExNest ==
    <<"/","*"," ","o","u","t","e","r"," ","/","*"," ","i","n","n","e","r"," ","*","/",
      " ","s","t","i","l","l"," ","c","o","m","m","e","n","t"," ","*","/">>
ExDash ==
    <<"s","e","l","e","c","t"," ","1"," ","-">>
\* a block comment right after a dash, and literals right after a dash or slash
ExDashBlock ==
    <<"-","/","*"," ","c"," ","*","/">>
ExDashString ==
    <<"-","'",";","'">>
ExSlashIdent ==
    <<"/","\"",";","\"">>

Examples == {ExString, ExUnterminated, ExLine, ExBlock, ExNest, ExDash,
             ExDashBlock, ExDashString, ExSlashIdent}

\* ---------------------------------------------------------------------
\* Scanner: initial state and steps
\* ---------------------------------------------------------------------
ScanInit ==
    /\ input = <<>>
    /\ script \in {<<>>} \cup Examples
    /\ state = "Start"
    /\ held = <<>>
    /\ buffer = <<>>
    /\ statements = <<>>
    /\ result = NoResult
    /\ spc = "scan"
    /\ lastKey = <<>>
    /\ lastAction = "none"
    /\ ref = "code"
    /\ cls = <<>>
    /\ cuts = {}
    /\ emitted = <<>>
    /\ carried = {}

\* the grapheme feed has a next grapheme g
HasNext(g) ==
    IF script = <<>>
    THEN Len(input) < MaxLen /\ g \in Alphabet
    ELSE Len(input) < Len(script) /\ g = script[Len(input) + 1]

AtEnd == script = <<>> \/ Len(input) = Len(script)

\* one grapheme: key, transition, disposition, boundary
Feed(g) ==
    /\ spc = "scan"
    /\ HasNext(g)
    /\ LET inp  == Append(input, g)
           k    == Append(held, Len(inp))
           r    == accept(state, Text(inp, k))
           buf1 == buffer \o k
           cut  == /\ r.action = "Append"
                   /\ r.next = "Start"
                   /\ \E j \in 1..Len(k) : inp[k[j]] = Delimiter
       IN  /\ input' = inp
           /\ state' = r.next
           /\ lastKey' = Text(inp, k)
           /\ lastAction' = r.action
           /\ held' = IF r.action = "Carry" THEN k ELSE <<>>
           /\ buffer' = CASE r.action = "Append" /\ cut  -> <<>>
                          [] r.action = "Append" /\ ~cut -> buf1
                          [] OTHER                       -> buffer
           /\ statements' = IF cut THEN Flush(inp, statements, buf1) ELSE statements
           /\ cuts' = IF cut THEN cuts \cup {Len(inp)} ELSE cuts
           /\ emitted' = IF r.action = "Append" THEN emitted \o k ELSE emitted
           /\ carried' = IF r.action = "Carry" /\ Text(inp, k) \in {<<"-">>, <<"/">>}
                         THEN carried \cup {Len(inp)} ELSE carried
           /\ ref' = RefStep(ref, g)
           /\ cls' = ClsStep(cls, ref, g)
    /\ UNCHANGED <<script, result, spc>>

\* end of input
Finish ==
    /\ spc = "scan"
    /\ AtEnd
    /\ spc' = "done"
    /\ IF can_terminate(state)
       THEN /\ statements' = Flush(input, statements, buffer \o held)
            /\ result' = [kind |-> "ok", error |-> "none", statements |-> statements']
            /\ emitted' = emitted \o held
       ELSE /\ statements' = <<>>
            /\ result' = [kind |-> "failure", error |-> ErrorOf(state),
                          statements |-> <<>>]
            /\ emitted' = emitted
    /\ buffer' = <<>>
    /\ held' = <<>>
    /\ UNCHANGED <<input, script, state, lastKey, lastAction, ref, cls, cuts, carried>>

ScanNext ==
    \/ \E g \in Alphabet \cup {" ", "s", "e", "l", "c", "t", "x", "1", "2", "b",
                               "r", "i", "n", "g", "o", "m", "u"} : Feed(g)
    \/ Finish

ScanIdle ==
    /\ input = <<>>
    /\ script = <<>>
    /\ state = "Start"
    /\ held = <<>>
    /\ buffer = <<>>
    /\ statements = <<>>
    /\ result = NoResult
    /\ spc = "idle"
    /\ lastKey = <<>>
    /\ lastAction = "none"
    /\ ref = "code"
    /\ cls = <<>>
    /\ cuts = {}
    /\ emitted = <<>>
    /\ carried = {}


\* ---------------------------------------------------------------------
\* src/commands/begin.rs
\* ---------------------------------------------------------------------
Paths == {"root_dir", "revisions_dir", "conf_file", "env_file", "env_ex_file"}

Ok == [ok |-> TRUE, error |-> "none"]
Err(e) == [ok |-> FALSE, error |-> e]

BeginInit ==
    /\ fs \in {S \in SUBSET Paths : S # {} => "root_dir" \in S}
    /\ created_root = FALSE
    /\ created_revisions = FALSE
    /\ created_conf = FALSE
    /\ created_env = FALSE
    /\ created_env_ex = FALSE
    /\ bpc = "for_new_project"
    /\ berr = "none"
    /\ bresult = [ok |-> FALSE, error |-> "pending"]
    /\ pre = fs
    /\ made = {}
    /\ steps = <<>>
    /\ removals = <<>>

BeginIdle ==
    /\ fs = {}
    /\ created_root = FALSE
    /\ created_revisions = FALSE
    /\ created_conf = FALSE
    /\ created_env = FALSE
    /\ created_env_ex = FALSE
    /\ bpc = "idle"
    /\ berr = "none"
    /\ bresult = [ok |-> FALSE, error |-> "pending"]
    /\ pre = {}
    /\ made = {}
    /\ steps = <<>>
    /\ removals = <<>>

\* the step failed with e: map_err runs revert
Fail(e) ==
    /\ berr' = e
    /\ bpc' = "revert"

\* ProjectPaths::for_new_project(&dirpath)?  The project files must not be
\* there yet; an error returns from execute before anything is created.
ForNewProject ==
    /\ bpc = "for_new_project"
    /\ IF fs \cap {"conf_file", "env_file", "env_ex_file"} # {}
       THEN /\ bpc' = "returned"
            /\ bresult' = Err("paths")
       ELSE /\ bpc' = "create_root"
            /\ bresult' = bresult
    /\ UNCHANGED <<fs, created_root, created_revisions, created_conf,
                   created_env, created_env_ex, berr, pre, made, steps, removals>>

\* create_root setting created_root whether or not it created the directory
create_root_always(o) ==
    /\ bpc = "create_root"
    /\ steps' = Append(steps, "create_root")
    /\ created_root' = TRUE
    /\ IF "root_dir" \notin fs
       THEN IF o = "create_dir"
            THEN /\ Fail("create_root")
                 /\ UNCHANGED <<fs, made>>
            ELSE /\ fs' = fs \cup {"root_dir"}
                 /\ made' = made \cup {"root_dir"}
                 /\ bpc' = "create_revisions"
                 /\ berr' = berr
       ELSE /\ o = "ok"
            /\ bpc' = "create_revisions"
            /\ UNCHANGED <<fs, made, berr>>
    /\ UNCHANGED <<created_revisions, created_conf, created_env, created_env_ex,
                   bresult, pre, removals>>

\* outcome o: "ok" | "create_dir"
create_root(o) ==
    /\ bpc = "create_root"
    /\ steps' = Append(steps, "create_root")
    /\ IF "root_dir" \notin fs
       THEN IF o = "create_dir"
            THEN /\ Fail("create_root")
                 /\ UNCHANGED <<fs, created_root, made>>
            ELSE /\ fs' = fs \cup {"root_dir"}
                 /\ made' = made \cup {"root_dir"}
                 /\ created_root' = TRUE
                 /\ bpc' = "create_revisions"
                 /\ berr' = berr
       ELSE /\ o = "ok"
            /\ bpc' = "create_revisions"
            /\ UNCHANGED <<fs, created_root, made, berr>>
    /\ UNCHANGED <<created_revisions, created_conf, created_env, created_env_ex,
                   bresult, pre, removals>>

\* outcome o: "ok" | "create_dir"
create_revisions(o) ==
    /\ bpc = "create_revisions"
    /\ steps' = Append(steps, "create_revisions")
    /\ IF "revisions_dir" \notin fs
       THEN IF o = "create_dir"
            THEN /\ Fail("create_revisions")
                 /\ UNCHANGED <<fs, created_revisions, made>>
            ELSE /\ fs' = fs \cup {"revisions_dir"}
                 /\ made' = made \cup {"revisions_dir"}
                 /\ created_revisions' = TRUE
                 /\ bpc' = "create_conf"
                 /\ berr' = berr
       ELSE /\ o = "ok"
            /\ bpc' = "create_conf"
            /\ UNCHANGED <<fs, created_revisions, made, berr>>
    /\ UNCHANGED <<created_root, created_conf, created_env, created_env_ex,
                   bresult, pre, removals>>

\* create_conf setting created_conf only after write_all
create_conf_late(o) ==
    /\ bpc = "create_conf"
    /\ steps' = Append(steps, "create_conf")
    /\ IF o = "create"
       THEN /\ Fail("create_conf")
            /\ UNCHANGED <<fs, created_conf, made>>
       ELSE /\ fs' = fs \cup {"conf_file"}
            /\ made' = made \cup ({"conf_file"} \ fs)
            /\ IF o = "write"
               THEN Fail("write_conf") /\ created_conf' = created_conf
               ELSE bpc' = "create_env" /\ berr' = berr /\ created_conf' = TRUE
    /\ UNCHANGED <<created_root, created_revisions, created_env, created_env_ex,
                   bresult, pre, removals>>

\* outcome o: "ok" | "create" (File::create fails) | "write" (write_all fails)
create_conf(o) ==
    /\ bpc = "create_conf"
    /\ steps' = Append(steps, "create_conf")
    /\ IF o = "create"
       THEN /\ Fail("create_conf")
            /\ UNCHANGED <<fs, created_conf, made>>
       ELSE /\ fs' = fs \cup {"conf_file"}
            /\ made' = made \cup ({"conf_file"} \ fs)
            /\ created_conf' = TRUE
            /\ IF o = "write"
               THEN Fail("write_conf")
               ELSE bpc' = "create_env" /\ berr' = berr
    /\ UNCHANGED <<created_root, created_revisions, created_env, created_env_ex,
                   bresult, pre, removals>>

\* outcome o: "ok" | "create" | "write" (the environment file)
\*            | "create_ex" | "write_ex" (the example file)
create_env(o) ==
    /\ bpc = "create_env"
    /\ steps' = Append(steps, "create_env")
    /\ IF o = "create"
       THEN /\ Fail("create_env")
            /\ UNCHANGED <<fs, created_env, created_env_ex, made, bresult>>
       ELSE IF o = "write"
       THEN /\ fs' = fs \cup {"env_file"}
            /\ made' = made \cup ({"env_file"} \ fs)
            /\ created_env' = TRUE
            /\ Fail("write_env")
            /\ UNCHANGED <<created_env_ex, bresult>>
       ELSE IF o = "create_ex"
       THEN /\ fs' = fs \cup {"env_file"}
            /\ made' = made \cup ({"env_file"} \ fs)
            /\ created_env' = TRUE
            /\ Fail("create_env_ex")
            /\ UNCHANGED <<created_env_ex, bresult>>
       ELSE /\ fs' = fs \cup {"env_file", "env_ex_file"}
            /\ made' = made \cup ({"env_file", "env_ex_file"} \ fs)
            /\ created_env' = TRUE
            /\ created_env_ex' = TRUE
            /\ IF o = "write_ex"
               THEN Fail("write_env_ex") /\ bresult' = bresult
               ELSE \* every step succeeded: execute logs the paths, returns Ok(())
                    bpc' = "returned" /\ berr' = berr /\ bresult' = Ok
    /\ UNCHANGED <<created_root, created_revisions, created_conf, pre, removals>>

\* the io error of fs::remove_file / fs::remove_dir on path q
RemoveError(q) ==
    CASE q = "conf_file"     -> "remove_conf_file"
      [] q = "env_file"      -> "remove_env_file"
      [] q = "env_ex_file"   -> "remove_env_ex_file"
      [] q = "revisions_dir" -> "remove_revisions_dir"
      [] q = "root_dir"      -> "remove_root_dir"

\* the removals revert attempts, in its order
RevertOrder ==
    (IF created_conf THEN <<"conf_file">> ELSE <<>>)
    \o (IF created_env THEN <<"env_file">> ELSE <<>>)
    \o (IF created_env_ex THEN <<"env_ex_file">> ELSE <<>>)
    \o (IF created_revisions THEN <<"revisions_dir">> ELSE <<>>)
    \o (IF created_root THEN <<"root_dir">> ELSE <<>>)

\* revert whose error is dropped in favour of the step's error
revert_keep_error(f) ==
    /\ bpc = "revert"
    /\ f \in 0..Len(RevertOrder)
    /\ LET n == IF f = 0 THEN Len(RevertOrder) ELSE f - 1
       IN  /\ fs' = fs \ {RevertOrder[i] : i \in 1..n}
           /\ removals' = SubSeq(RevertOrder, 1, IF f = 0 THEN n ELSE f)
    /\ bresult' = Err(berr)
    /\ bpc' = "returned"
    /\ UNCHANGED <<created_root, created_revisions, created_conf, created_env,
                   created_env_ex, berr, pre, made, steps>>

\* map_err(|e| match cmd.revert() { Ok(_) => e, Err(err) => err })?
\* f is the index in RevertOrder of the removal that fails, 0 when none does
revert(f) ==
    /\ bpc = "revert"
    /\ f \in 0..Len(RevertOrder)
    /\ LET n == IF f = 0 THEN Len(RevertOrder) ELSE f - 1
       IN  /\ fs' = fs \ {RevertOrder[i] : i \in 1..n}
           /\ removals' = SubSeq(RevertOrder, 1, IF f = 0 THEN n ELSE f)
    /\ bresult' = IF f = 0 THEN Err(berr) ELSE Err(RemoveError(RevertOrder[f]))
    /\ bpc' = "returned"
    /\ UNCHANGED <<created_root, created_revisions, created_conf, created_env,
                   created_env_ex, berr, pre, made, steps>>

BeginNext ==
    \/ ForNewProject
    \/ \E o \in {"ok", "create_dir"} : create_root(o)
    \/ \E o \in {"ok", "create_dir"} : create_revisions(o)
    \/ \E o \in {"ok", "create", "write"} : create_conf(o)
    \/ \E o \in {"ok", "create", "write", "create_ex", "write_ex"} : create_env(o)
    \/ \E f \in 0..5 : revert(f)

\* ---------------------------------------------------------------------
\* src/main.rs: CliEnvironment::jrny_environment
\* ---------------------------------------------------------------------
None == [some |-> FALSE]
Some(v) == [some |-> TRUE, val |-> v]

FilePaths == {"p1", "p2"}
FileUrls == {"postgres://file1", "postgres://file2", "postgres://shared"}
CliUrls == {"postgres://shared", "postgres://cli1"}
LoadErrors == {"EnvNotFound", "BadEnvToml", "Io"}

OkV(v) == [ok |-> TRUE, val |-> v]
ErrV(e) == [ok |-> FALSE, error |-> e]

\* Environment { database: DatabaseEnvironment { url } }
Environment(url) == [database |-> [url |-> url]]

from_database_url(url) == Environment(url)

EnvInit ==
    /\ env_file \in {None} \cup {Some(q) : q \in FilePaths}
    /\ db_url \in {None} \cup {Some(u) : u \in CliUrls}
    /\ load \in {OkV(Environment(u)) : u \in FileUrls}
                \cup {ErrV(e) : e \in LoadErrors}
    /\ eresult = ErrV("pending")
    /\ epc = "call"

EnvIdle ==
    /\ env_file = None
    /\ db_url = None
    /\ load = ErrV("EnvNotFound")
    /\ eresult = ErrV("pending")
    /\ epc = "idle"

\* jrny_environment looking at db_url before the file's error
jrny_environment_url_first ==
    /\ epc = "call"
    /\ epc' = "returned"
    /\ eresult' =
           IF db_url.some THEN OkV(from_database_url(db_url.val))
           ELSE IF load.ok THEN OkV(load.val)
           ELSE ErrV(load.error)
    /\ UNCHANGED <<env_file, db_url, load>>

jrny_environment ==
    /\ epc = "call"
    /\ epc' = "returned"
    /\ LET file == IF load.ok THEN OkV(Some(load.val))
                   ELSE IF load.error = "EnvNotFound" THEN OkV(None)
                   ELSE ErrV(load.error)
       IN  eresult' =
               IF ~file.ok THEN ErrV(file.error)
               ELSE IF db_url.some THEN OkV(from_database_url(db_url.val))
               ELSE IF file.val.some THEN OkV(file.val.val)
               ELSE ErrV("EnvNotFound")
    /\ UNCHANGED <<env_file, db_url, load>>

EnvNext == jrny_environment

\* ---------------------------------------------------------------------
\* State::accept as a function of (state, key), and the table of spec 4.1
\* ---------------------------------------------------------------------
Keys == UNION {[1..n -> Alphabet] : n \in 0..MaxKeyLen}

AcceptInit ==
    /\ tstate \in States
    /\ tkey \in Keys
    /\ tresult = R("none", "none")
    /\ tpc = "call"

AcceptIdle ==
    /\ tstate = "Start"
    /\ tkey = <<>>
    /\ tresult = R("none", "none")
    /\ tpc = "idle"

CallAccept ==
    /\ tpc = "call"
    /\ tresult' = accept(tstate, tkey)
    /\ tpc' = "returned"
    /\ UNCHANGED <<tstate, tkey>>

AcceptNext == CallAccept

\* the names spec 4.1 gives to the states and dispositions
SpecState(st) ==
    CASE st = "Start"                   -> "Start"
      [] st = "InString"                -> "InString"
      [] st = "InDelimitedIdentifier"   -> "InQuotedIdentifier"
      [] st = "MightStartInlineComment" -> "MaybeLineComment"
      [] st = "InInlineComment"         -> "InLineComment"
      [] st = "MightStartBlockComment"  -> "MaybeBlockComment"
      [] st = "InBlockComment"          -> "InBlockComment"
      [] st = "MightEndBlockComment"    -> "MaybeEndBlockComment"

Disposition(a) ==
    CASE a = "Ignore" -> "Drop"
      [] a = "Append" -> "Emit"
      [] a = "Carry"  -> "Hold"

Row(d, n) == [disposition |-> d, next |-> n]

\* the transition table of spec 4.1, row by row
Table(st, k) ==
    CASE st = "Start" /\ k = <<"'">>                   -> Row("Emit", "InString")
      [] st = "Start" /\ k = <<"\"">>                  -> Row("Emit", "InQuotedIdentifier")
      [] st = "Start" /\ k = <<"-">>                   -> Row("Hold", "MaybeLineComment")
      [] st = "Start" /\ k = <<"/">>                   -> Row("Hold", "MaybeBlockComment")
      [] st = "Start"                                  -> Row("Emit", "Start")
      [] st = "InString" /\ k = <<"'">>                -> Row("Emit", "Start")
      [] st = "InString"                               -> Row("Emit", "InString")
      [] st = "InQuotedIdentifier" /\ k = <<"\"">>     -> Row("Emit", "Start")
      [] st = "InQuotedIdentifier"                     -> Row("Emit", "InQuotedIdentifier")
      [] st = "MaybeLineComment" /\ k = <<"'">>        -> Row("Emit", "InString")
      [] st = "MaybeLineComment" /\ k = <<"\"">>       -> Row("Emit", "InQuotedIdentifier")
      [] st = "MaybeLineComment" /\ k = <<"-", "-">>   -> Row("Drop", "InLineComment")
      [] st = "MaybeLineComment" /\ k = <<"/">>        -> Row("Hold", "MaybeBlockComment")
      [] st = "MaybeLineComment"                       -> Row("Emit", "Start")
      [] st = "InLineComment" /\ k = <<"\n">>          -> Row("Emit", "Start")
      [] st = "InLineComment"                          -> Row("Drop", "InLineComment")
      [] st = "MaybeBlockComment" /\ k = <<"'">>       -> Row("Emit", "InString")
      [] st = "MaybeBlockComment" /\ k = <<"\"">>      -> Row("Emit", "InQuotedIdentifier")
      [] st = "MaybeBlockComment" /\ k = <<"-">>       -> Row("Drop", "MaybeLineComment")
      [] st = "MaybeBlockComment" /\ k = <<"/", "*">>  -> Row("Hold", "InBlockComment")
      [] st = "MaybeBlockComment"                      -> Row("Emit", "Start")
      [] st = "InBlockComment" /\ k = <<"*">>          -> Row("Hold", "MaybeEndBlockComment")
      [] st = "InBlockComment"                         -> Row("Drop", "InBlockComment")
      [] st = "MaybeEndBlockComment" /\ k = <<"*", "/">> -> Row("Drop", "Start")
      [] st = "MaybeEndBlockComment"                   -> Row("Drop", "InBlockComment")

\* ---------------------------------------------------------------------
\* Vocabulary of the scanner properties
\* ---------------------------------------------------------------------
Done == spc = "done"

Returned == result.statements

\* the returned statements as texts
StmtTexts == [i \in 1..Len(Returned) |-> Text(input, Returned[i])]

InSeq(x, seq) == \E j \in 1..Len(seq) : seq[j] = x

\* position p is part of some returned statement
InReturned(p) == \E i \in 1..Len(Returned) : InSeq(p, Returned[i])

RECURSIVE Flatten(_)
Flatten(seqs) == IF seqs = <<>> THEN <<>> ELSE Head(seqs) \o Flatten(Tail(seqs))

\* the held grapheme at p and the one after it spell a comment marker
Marker(p) ==
    /\ p < Len(input)
    /\ <<input[p], input[p + 1]>> \in {<<"-", "-">>, <<"/", "*">>}

NoSpecial == \A i \in 1..Len(input) : input[i] \notin {"'", "\"", "-", "/"}

\* ---------------------------------------------------------------------
\* C1: a `;` inside a string literal or quoted identifier (between an opening
\* quote met outside any literal or comment, whatever precedes it, and the
\* next such quote) never ends a statement; `select ';' as x;` is one
\* statement.
\* ---------------------------------------------------------------------
C1Claim ==
    /\ \A p \in cuts : cls[p] # "lit"
    /\ (Done /\ script = ExString) =>
           (result.kind = "ok" /\ Len(Returned) = 1)

\* ---------------------------------------------------------------------
\* C2: when the input ends in InString, InDelimitedIdentifier, InBlockComment
\* or MightEndBlockComment the result is the failure naming the open
\* construct and holds no statement, whatever was completed before.
\* ---------------------------------------------------------------------
C2Unterminated ==
    /\ (Done /\ state \in {"InString", "InDelimitedIdentifier",
                           "InBlockComment", "MightEndBlockComment"}) =>
           /\ result.kind = "failure"
           /\ Returned = <<>>
           /\ statements = <<>>
           /\ state = "InString" => result.error = "UnterminatedString"
           /\ state = "InDelimitedIdentifier" =>
                  result.error = "UnterminatedQuotedIdentifier"
           /\ state \in {"InBlockComment", "MightEndBlockComment"} =>
                  result.error = "UnterminatedBlockComment"
    /\ (Done /\ script = ExUnterminated) =>
           (result.kind = "failure" /\ result.error = "UnterminatedString"
            /\ Returned = <<>>)

\* a string is left open after a complete statement
C2Witness ==
    /\ Done
    /\ state = "InString"
    /\ cuts # {}
    /\ result.kind = "failure"

\* ---------------------------------------------------------------------
\* C3: input ending inside a line comment is not an error; the scan returns
\* what the same input followed by a newline returns.
\* ---------------------------------------------------------------------
C3Claim ==
    [][(spc = "scan" /\ spc' = "done" /\ state = "InInlineComment") =>
          /\ result'.kind = "ok"
          /\ result'.statements =
                 Flush(Append(input, "\n"), statements,
                       buffer \o <<Len(input) + 1>>)]_vars

\* ---------------------------------------------------------------------
\* C4: no grapheme of a line comment (`--` up to the next newline) is in a
\* returned statement, a `;` in a line comment ends no statement, and
\* `select 1; -- trailing comment\nselect 2;` gives `select 1;`, `select 2;`.
\* ---------------------------------------------------------------------
C4Claim ==
    /\ \A p \in cuts : cls[p] # "lc"
    /\ Done => \A p \in 1..Len(input) : cls[p] = "lc" => ~InReturned(p)
    /\ (Done /\ script = ExLine) =>
           StmtTexts = << <<"s","e","l","e","c","t"," ","1",";">>,
                          <<"s","e","l","e","c","t"," ","2",";">> >>

\* ---------------------------------------------------------------------
\* C5: no grapheme of a block comment (`/*` through `*/`) is in a returned
\* statement, a `;` in a block comment ends no statement, and
\* `select /* a; b */ 1;` gives the one statement `select  1;`.
\* ---------------------------------------------------------------------
C5Claim ==
    /\ \A p \in cuts : cls[p] # "bc"
    /\ Done => \A p \in 1..Len(input) : cls[p] = "bc" => ~InReturned(p)
    /\ (Done /\ script = ExBlock) =>
           StmtTexts = << <<"s","e","l","e","c","t"," "," ","1",";">> >>

\* ---------------------------------------------------------------------
\* C6: a held `-` or `/` that does not turn out to start `--` or `/*` is
\* emitted, in input order; held at the end of input in a terminable state
\* it ends the final statement.  `select 1 -` keeps its dash.
\* ---------------------------------------------------------------------
C6HeldNeverLost ==
    /\ \A j \in 1..(Len(emitted) - 1) : emitted[j] < emitted[j + 1]
    /\ \A p \in carried :
           /\ (p < Len(input) /\ ~Marker(p)) => InSeq(p, emitted)
           /\ (p < Len(input) /\ ~Marker(p) /\ Done /\ result.kind = "ok") =>
                  InReturned(p)
           /\ (p = Len(input) /\ Done /\ can_terminate(state)) =>
                  /\ result.kind = "ok"
                  /\ Returned # <<>>
                  /\ LET last == Returned[Len(Returned)]
                     IN  last[Len(last)] = p
    /\ (Done /\ script = ExDash) =>
           StmtTexts = << <<"s","e","l","e","c","t"," ","1"," ","-">> >>

\* one held grapheme resolved by the next grapheme, one by the end of input
C6Witness ==
    /\ Done
    /\ script = <<>>
    /\ Len(input) \in carried
    /\ \E p \in carried : p < Len(input) /\ ~Marker(p) /\ InReturned(p)

\* ---------------------------------------------------------------------
\* C7: block comments do not nest; the first `*/` after the opener returns
\* the scanner to Start whatever the body (empty, ending in `*`), and
\* `/* outer /* inner */ still comment */` leaves `still comment */`.
\* ---------------------------------------------------------------------
C7Claim ==
    [][/\ (state \in {"InBlockComment", "MightEndBlockComment"}
             /\ ref = "blockstar" /\ ref' = "code") => state' = "Start"
       /\ (spc' = "done" /\ script = ExNest) =>
              Text(input, Flatten(result'.statements)) =
                  <<"s","t","i","l","l"," ","c","o","m","m","e","n","t"," ","*","/">>
      ]_vars

C9Rollback ==
    (bpc = "returned" /\ berr # "none" /\ bresult.error = berr) =>
        /\ ~bresult.ok
        /\ made \cap fs = {}

\* the last write fails after all five resources were created
C9Witness ==
    /\ bpc = "returned"
    /\ berr = "write_env_ex"
    /\ bresult = Err("write_env_ex")
    /\ made = Paths

\* ---------------------------------------------------------------------
\* C10: jrny_environment fails with the file's error when the file exists
\* but does not load, even with db_url; else db_url, when given, wins (file
\* overridden or missing); else the file's environment; else EnvNotFound.
\* ---------------------------------------------------------------------
C10Resolution ==
    epc = "returned" =>
        CASE ~load.ok /\ load.error # "EnvNotFound" -> eresult = ErrV(load.error)
          [] ~load.ok /\ load.error = "EnvNotFound" ->
                 IF db_url.some
                 THEN eresult = OkV(Environment(db_url.val))
                 ELSE eresult = ErrV("EnvNotFound")
          [] load.ok ->
                 IF db_url.some
                 THEN eresult = OkV(Environment(db_url.val))
                 ELSE eresult = OkV(load.val)

\* a broken environment file with db_url given
C10Witness ==
    /\ epc = "returned"
    /\ ~load.ok
    /\ load.error = "BadEnvToml"
    /\ db_url.some
    /\ ~eresult.ok

\* the step reads one more grapheme
Reads == spc = "scan" /\ Len(input') = Len(input) + 1

\* the grapheme read by the step
Read == input'[Len(input')]

\* ---------------------------------------------------------------------
\* C11: in MightStartInlineComment or MightStartBlockComment a following `'`
\* (`"`) has the pending text appended and leads to InString
\* (InDelimitedIdentifier), so the `;` of `-';'` and `/";"` ends no statement.
\* ---------------------------------------------------------------------
C11Claim ==
    [][/\ (Reads /\ state \in {"MightStartInlineComment", "MightStartBlockComment"}
             /\ Read \in {"'", "\""}) =>
              /\ lastAction' = "Append"
              /\ emitted' = emitted \o held \o <<Len(input')>>
              /\ state' = IF Read = "'" THEN "InString" ELSE "InDelimitedIdentifier"
       /\ (script \in {ExDashString, ExSlashIdent}) => cuts' = {}
      ]_vars

\* ---------------------------------------------------------------------
\* C12: in MightStartInlineComment a following `/` is carried and leads to
\* MightStartBlockComment, so `-/* c */` loses its comment and keeps its dash.
\* ---------------------------------------------------------------------
C12Claim ==
    [][/\ (Reads /\ state = "MightStartInlineComment" /\ Read = "/") =>
              /\ lastAction' = "Carry"
              /\ state' = "MightStartBlockComment"
       /\ (spc' = "done" /\ script = ExDashBlock) =>
              /\ result'.kind = "ok"
              /\ Text(input, Flatten(result'.statements)) = <<"-">>
      ]_vars

\* ---------------------------------------------------------------------
\* C13: the held text is never longer than one grapheme and every key given
\* to accept is one grapheme or one held grapheme followed by the next one.
\* ---------------------------------------------------------------------
C13Claim ==
    /\ Len(held) <= 1
    /\ Len(lastKey) <= 2

\* ---------------------------------------------------------------------
\* C14: can_terminate is true for Start, MightStartInlineComment and
\* MightStartBlockComment only, and a scan succeeds exactly when the state
\* after the last grapheme is one of these three; in the other five it fails.
\* ---------------------------------------------------------------------
Terminable == {"Start", "MightStartInlineComment", "MightStartBlockComment"}

C14Terminable ==
    /\ {st \in States : can_terminate(st)} = Terminable
    /\ Done =>
           /\ state \in Terminable => result.kind = "ok"
           /\ state \in States \ Terminable =>
                  result.kind = "failure" /\ Returned = <<>>

\* the input ends inside a line comment, after a complete statement
C14Witness ==
    /\ Done
    /\ state = "InInlineComment"
    /\ cuts # {}
    /\ result.kind = "failure"

\* ---------------------------------------------------------------------
\* C15: for each of the eight states and every key, accept returns one
\* (action, next state), the row of the table of spec 4.1 for that state
\* and key (Ignore = Drop, Append = Emit, Carry = Hold; unlisted keys take
\* the state's `other` row).
\* ---------------------------------------------------------------------
C15Table ==
    tpc = "returned" =>
        /\ tresult.action \in Action
        /\ tresult.next \in States
        /\ Row(Disposition(tresult.action), SpecState(tresult.next))
               = Table(SpecState(tstate), tkey)

\* the two-grapheme opener, carried
C15Witness ==
    /\ tpc = "returned"
    /\ tstate = "MightStartBlockComment"
    /\ tkey = <<"/", "*">>
    /\ tresult = R("Carry", "InBlockComment")

LastCut == IF cuts = {} THEN 0 ELSE SetMax(cuts)

Trailing == {p \in 1..Len(input) : InSeq(p, emitted) /\ p > LastCut}

TrailingSolid == {p \in Trailing : ~IsWhitespace(input[p])}

C18HeldByState ==
    spc = "scan" =>
        LET h == Text(input, held) IN
        /\ state \in {"Start", "InString", "InDelimitedIdentifier",
                      "InInlineComment"} => h = <<>>
        /\ state = "MightStartInlineComment" => h = <<"-">>
        /\ state = "MightStartBlockComment" => h = <<"/">>
        /\ state = "MightEndBlockComment" => h = <<"*">>
        /\ state = "InBlockComment" => h \in {<<>>, <<"/", "*">>}

\* a star held inside a block comment that follows a statement
C18Witness ==
    /\ spc = "scan"
    /\ state = "MightEndBlockComment"
    /\ Text(input, held) = <<"*">>
    /\ cuts # {}

\* the steps of execute, in the order of its and_then chain
StepOrder == <<"create_root", "create_revisions", "create_conf", "create_env">>

\* the step an error comes from
StepOf(e) ==
    CASE e = "create_root"                  -> "create_root"
      [] e = "create_revisions"             -> "create_revisions"
      [] e \in {"create_conf", "write_conf"} -> "create_conf"
      [] OTHER                              -> "create_env"

\* revert stopped at a removal that failed: the path is still there
RevertFailed == removals # <<>> /\ removals[Len(removals)] \in fs

\* ---------------------------------------------------------------------
\* C19: execute calls create_root, create_revisions, create_conf, create_env
\* in this order and none after a failure; after a failure it never returns
\* Ok: it returns the step's error when revert succeeds and revert's error
\* when a removal fails, and then the later removals are not attempted.
\* ---------------------------------------------------------------------
C19Order ==
    /\ Len(steps) <= Len(StepOrder)
    /\ steps = SubSeq(StepOrder, 1, Len(steps))
    /\ berr # "none" =>
           /\ steps # <<>>
           /\ steps[Len(steps)] = StepOf(berr)
           /\ bpc \in {"revert", "returned"}
    /\ bresult.ok => (berr = "none" /\ steps = StepOrder)
    /\ (bpc = "returned" /\ berr # "none") =>
           /\ ~bresult.ok
           /\ removals = SubSeq(RevertOrder, 1, Len(removals))
           /\ IF RevertFailed
              THEN /\ bresult.error = RemoveError(removals[Len(removals)])
                   /\ \A i \in (Len(removals) + 1)..Len(RevertOrder) :
                          RevertOrder[i] \in fs
              ELSE /\ bresult.error = berr
                   /\ removals = RevertOrder

\* the write of the environment file fails and its removal fails too
C19Witness ==
    /\ bpc = "returned"
    /\ berr = "write_env"
    /\ removals = <<"conf_file", "env_file">>
    /\ bresult = Err("remove_env_file")
    /\ {"env_file", "revisions_dir", "root_dir"} \subseteq (made \cap fs)

\* ---------------------------------------------------------------------
\* C20: a created_* flag is true only for a resource this execution
\* created, revert removes nothing else, and a root or revisions directory
\* that was there before execute is still there at every point.
\* ---------------------------------------------------------------------
C20Frame ==
    /\ created_root => ("root_dir" \in made /\ "root_dir" \notin pre)
    /\ created_revisions => ("revisions_dir" \in made /\ "revisions_dir" \notin pre)
    /\ created_conf => ("conf_file" \in made /\ "conf_file" \notin pre)
    /\ created_env => ("env_file" \in made /\ "env_file" \notin pre)
    /\ created_env_ex => ("env_ex_file" \in made /\ "env_ex_file" \notin pre)
    /\ \A i \in 1..Len(removals) : removals[i] \in made
    /\ pre \ fs = {}
    /\ "root_dir" \in pre => "root_dir" \in fs
    /\ "revisions_dir" \in pre => "revisions_dir" \in fs

\* both directories were there; a later step failed and revert ran
C20Witness ==
    /\ bpc = "returned"
    /\ pre = {"root_dir", "revisions_dir"}
    /\ berr = "write_env_ex"
    /\ bresult = Err("write_env_ex")
    /\ removals = <<"conf_file", "env_file", "env_ex_file">>
    /\ fs = pre

\* ---------------------------------------------------------------------
\* Specifications
\* ---------------------------------------------------------------------
Init == ScanInit /\ BeginIdle /\ EnvIdle /\ AcceptIdle

Next == ScanNext /\ UNCHANGED <<bvars, evars, avars>>

\* the scanner
Spec == Init /\ [][Next]_vars

InitBegin == ScanIdle /\ BeginInit /\ EnvIdle /\ AcceptIdle

NextBegin == BeginNext /\ UNCHANGED <<svars, evars, avars>>

\* the begin command
SpecBegin == InitBegin /\ [][NextBegin]_vars

InitEnv == ScanIdle /\ BeginIdle /\ EnvInit /\ AcceptIdle

NextEnv == EnvNext /\ UNCHANGED <<svars, bvars, avars>>

\* the CLI environment resolution
SpecEnv == InitEnv /\ [][NextEnv]_vars

InitAccept == ScanIdle /\ BeginIdle /\ EnvIdle /\ AcceptInit

NextAccept == AcceptNext /\ UNCHANGED <<svars, bvars, evars>>

\* State::accept on its own
SpecAccept == InitAccept /\ [][NextAccept]_vars

====
